---- MODULE Spec2Model ----
(***************************************************************************)
(* Variable spaces of ReFrame regression tests (reframe/core/variables.py) *)
(* and the progress counter of the pretty printer                          *)
(* (reframe/frontend/printer.py).                                          *)
(*                                                                         *)
(* A class is created from its body (local variable space + plain class    *)
(* attributes); its VarSpace is then built by joining the VarSpace of      *)
(* every base class, extending with the local variable space and running   *)
(* the sanity check.  Instances of a registered class get the variables    *)
(* injected.  TestVar objects live in a heap and are referred to by        *)
(* reference, as Python objects are.                                       *)
(***************************************************************************)
EXTENDS Integers, Sequences, FiniteSets, TLC

\* ---- bounds of the model ------------------------------------------------
\* the size of a program: one for every class statement, for every base it
\* names, for every entry of its body and for every instance constructed
\* class hierarchies over one variable name, with instances
MaxSize == 7
\* class bodies over two variable names, without instances
MaxBodySize == 6
\* classes that only declare variables, over two names, with instances
MaxJoinSize == 8
\* the calls made on one TestVar object
MaxCalls == 4
\* the largest number of test cases given to reset_progress
MaxTotal == 3

\* ---- universes of the inputs --------------------------------------------
Names == {"x", "y"}
TreeNames == {"x"}
Values == {"2"}
FieldArgs == {"int"}

\* ---- TestVar ------------------------------------------------------------
_Undefined == "_Undefined"

TestVar(args, value) ==
    [field_type |-> "TypedField", args |-> args, default_value |-> value]

is_defined(var) == var.default_value # _Undefined

\* an undefine that keeps the default
undefineKeepsDefault(var) == var

undefine(var) == [var EXCEPT !.default_value = _Undefined]

define(var, value) == [var EXCEPT !.default_value = value]

DefineVar(default_value) ==
    [kind |-> "DefineVar", args |-> "-", default_value |-> default_value]

UndefineVar ==
    [kind |-> "UndefineVar", args |-> "-", default_value |-> _Undefined]

\* ---- ordered mappings (Python dicts) as sequences of entries with .key ---
Keys(m) == {m[i].key : i \in 1..Len(m)}

HasKey(m, k) == \E i \in 1..Len(m) : m[i].key = k

IndexOf(m, k) == CHOOSE i \in 1..Len(m) : m[i].key = k

Get(m, k) == m[IndexOf(m, k)]

NoErr == [type |-> "None", key |-> "None"]

Raise(type, key) == [type |-> type, key |-> key]

VARIABLES bases, local, body, cdict, heap, vspace, pc, err, obj, injects,
          testvar, calls, printer, logged

\* the classes, their variable spaces and the instances
vsvars == <<bases, local, body, cdict, heap, vspace, pc, err, obj, injects>>

\* one TestVar object and the calls made on it
tvvars == <<testvar, calls>>

\* the PrettyPrinter object and the last line it handed to the logger
ppvars == <<printer, logged>>

vars == <<bases, local, body, cdict, heap, vspace, pc, err, obj, injects,
          testvar, calls, printer, logged>>

NumClasses == Len(bases)

\* the class whose VarSpace is being built is always the newest one
Registered == IF pc = "idle" THEN 1..NumClasses ELSE 1..(NumClasses - 1)

\* ---- VarSpace.__init__ ---------------------------------------------------
EmptyVarSpace == [vars |-> << >>, injected |-> {}]

\* ---- VarSpace.join -------------------------------------------------------
\* a join that keeps the first variable of a name instead of raising
RECURSIVE JoinLoopKeepFirst(_, _, _)
JoinLoopKeepFirst(svars, ovars, i) ==
    IF i > Len(ovars) THEN [vars |-> svars, err |-> NoErr]
    ELSE IF HasKey(svars, ovars[i].key)
         THEN JoinLoopKeepFirst(svars, ovars, i + 1)
         ELSE JoinLoopKeepFirst(Append(svars, ovars[i]), ovars, i + 1)

RECURSIVE JoinLoop(_, _, _)
JoinLoop(svars, ovars, i) ==
    IF i > Len(ovars) THEN [vars |-> svars, err |-> NoErr]
    ELSE IF HasKey(svars, ovars[i].key)
         THEN [vars |-> svars,
               err |-> Raise("DuplicateDeclarationError", ovars[i].key)]
         ELSE JoinLoop(Append(svars, ovars[i]), ovars, i + 1)

\* a join that does not carry over the set of injected variables
joinNoCarry(self, other) ==
    LET r == JoinLoop(self.vars, other.vars, 1)
    IN  [vars |-> r.vars, injected |-> self.injected, err |-> r.err]

\* a join that only takes the injected variables of the first VarSpace joined
joinFirstCarry(self, other) ==
    LET r == JoinLoop(self.vars, other.vars, 1)
    IN  [vars |-> r.vars,
         injected |-> IF r.err = NoErr /\ self.vars = << >>
                      THEN self.injected \cup other.injected
                      ELSE self.injected,
         err |-> r.err]

join(self, other) ==
    LET r == JoinLoop(self.vars, other.vars, 1)
    IN  [vars |-> r.vars,
         injected |-> IF r.err = NoErr
                      THEN self.injected \cup other.injected
                      ELSE self.injected,
         err |-> r.err]

\* ---- VarSpace._check_var_is_declared --------------------------------------
_check_var_is_declared(svars, key) ==
    IF HasKey(svars, key) THEN NoErr
    ELSE Raise("UndeclaredVariableError", key)

\* ---- VarSpace.extend ------------------------------------------------------
\* a first loop that skips the define or undefine of an undeclared name
RECURSIVE ExtendLocalLenient(_, _, _, _, _)
ExtendLocalLenient(svars, hp, loc, d, i) ==
    IF i > Len(loc) THEN [vars |-> svars, heap |-> hp, err |-> NoErr]
    ELSE LET e == loc[i] IN
         IF e.kind = "TestVar"
         THEN IF HasKey(svars, e.key)
              THEN [vars |-> svars, heap |-> hp,
                    err |-> Raise("RedeclarationError", e.key)]
              ELSE ExtendLocalLenient(
                       Append(svars, [key |-> e.key, ref |-> <<d, e.key>>]),
                       hp, loc, d, i + 1)
         ELSE IF ~HasKey(svars, e.key)
              THEN ExtendLocalLenient(svars, hp, loc, d, i + 1)
              ELSE ExtendLocalLenient(svars,
                                      [hp EXCEPT ![Get(svars, e.key).ref] =
                                                   define(@, e.default_value)],
                                      loc, d, i + 1)

\* a first loop in which a declaration replaces an inherited variable
RECURSIVE ExtendLocalOverwrite(_, _, _, _, _)
ExtendLocalOverwrite(svars, hp, loc, d, i) ==
    IF i > Len(loc) THEN [vars |-> svars, heap |-> hp, err |-> NoErr]
    ELSE LET e == loc[i] IN
         IF e.kind = "TestVar"
         THEN ExtendLocalOverwrite(
                  IF HasKey(svars, e.key)
                  THEN [svars EXCEPT ![IndexOf(svars, e.key)].ref = <<d, e.key>>]
                  ELSE Append(svars, [key |-> e.key, ref |-> <<d, e.key>>]),
                  hp, loc, d, i + 1)
         ELSE LET c == _check_var_is_declared(svars, e.key) IN
              IF c # NoErr
              THEN [vars |-> svars, heap |-> hp, err |-> c]
              ELSE ExtendLocalOverwrite(svars,
                                        [hp EXCEPT ![Get(svars, e.key).ref] =
                                                     define(@, e.default_value)],
                                        loc, d, i + 1)

\* first loop: the entries of the local variable space, in order
RECURSIVE ExtendLocal(_, _, _, _, _)
ExtendLocal(svars, hp, loc, d, i) ==
    IF i > Len(loc) THEN [vars |-> svars, heap |-> hp, err |-> NoErr]
    ELSE LET e == loc[i] IN
         IF e.kind = "TestVar"
         THEN IF HasKey(svars, e.key)
              THEN [vars |-> svars, heap |-> hp,
                    err |-> Raise("RedeclarationError", e.key)]
              ELSE ExtendLocal(Append(svars, [key |-> e.key, ref |-> <<d, e.key>>]),
                               hp, loc, d, i + 1)
         ELSE LET c == _check_var_is_declared(svars, e.key) IN
              IF c # NoErr
              THEN [vars |-> svars, heap |-> hp, err |-> c]
              ELSE ExtendLocal(svars,
                               [hp EXCEPT ![Get(svars, e.key).ref] =
                                            define(@, e.default_value)],
                               loc, d, i + 1)

\* a second loop without the check for a second action on a name
RECURSIVE ExtendBodyNoCheck(_, _, _, _, _)
ExtendBodyNoCheck(svars, hp, loc, dict, i) ==
    IF i > Len(dict) THEN [vars |-> svars, heap |-> hp, err |-> NoErr]
    ELSE LET e == dict[i] IN
         IF HasKey(svars, e.key)
         THEN ExtendBodyNoCheck(svars,
                                [hp EXCEPT ![Get(svars, e.key).ref] =
                                             define(@, e.value)],
                                loc, dict, i + 1)
         ELSE ExtendBodyNoCheck(svars, hp, loc, dict, i + 1)

\* a second loop that lets a freshly declared variable take the value
\* assigned in the class body
RECURSIVE ExtendBodyDeclared(_, _, _, _, _)
ExtendBodyDeclared(svars, hp, loc, dict, i) ==
    IF i > Len(dict) THEN [vars |-> svars, heap |-> hp, err |-> NoErr]
    ELSE LET e == dict[i] IN
         IF HasKey(loc, e.key) /\ Get(loc, e.key).kind # "TestVar"
         THEN [vars |-> svars, heap |-> hp,
               err |-> Raise("MultipleActionsError", e.key)]
         ELSE IF HasKey(svars, e.key)
              THEN ExtendBodyDeclared(svars,
                                      [hp EXCEPT ![Get(svars, e.key).ref] =
                                                   define(@, e.value)],
                                      loc, dict, i + 1)
              ELSE ExtendBodyDeclared(svars, hp, loc, dict, i + 1)

\* a second loop that insists on every attribute being a declared variable
RECURSIVE ExtendBodyStrict(_, _, _, _, _)
ExtendBodyStrict(svars, hp, loc, dict, i) ==
    IF i > Len(dict) THEN [vars |-> svars, heap |-> hp, err |-> NoErr]
    ELSE LET e == dict[i] IN
         IF HasKey(loc, e.key)
         THEN [vars |-> svars, heap |-> hp,
               err |-> Raise("MultipleActionsError", e.key)]
         ELSE LET c == _check_var_is_declared(svars, e.key) IN
              IF c # NoErr
              THEN [vars |-> svars, heap |-> hp, err |-> c]
              ELSE ExtendBodyStrict(svars,
                                    [hp EXCEPT ![Get(svars, e.key).ref] =
                                                 define(@, e.value)],
                                    loc, dict, i + 1)

\* second loop: the attributes of the class body (cls.__dict__), in order
RECURSIVE ExtendBody(_, _, _, _, _)
ExtendBody(svars, hp, loc, dict, i) ==
    IF i > Len(dict) THEN [vars |-> svars, heap |-> hp, err |-> NoErr]
    ELSE LET e == dict[i] IN
         IF HasKey(loc, e.key)
         THEN [vars |-> svars, heap |-> hp,
               err |-> Raise("MultipleActionsError", e.key)]
         ELSE IF HasKey(svars, e.key)
              THEN LET c == _check_var_is_declared(svars, e.key) IN
                   IF c # NoErr
                   THEN [vars |-> svars, heap |-> hp, err |-> c]
                   ELSE ExtendBody(svars,
                                   [hp EXCEPT ![Get(svars, e.key).ref] =
                                                define(@, e.value)],
                                   loc, dict, i + 1)
              ELSE ExtendBody(svars, hp, loc, dict, i + 1)

extend(svars, hp, loc, dict, d) ==
    LET r == ExtendLocal(svars, hp, loc, d, 1)
    IN  IF r.err # NoErr THEN r
        ELSE ExtendBody(r.vars, r.heap, loc, dict, 1)

\* ---- class attributes ----------------------------------------------------
Attr(key, value) == [key |-> key, kind |-> "attr", value |-> value, args |-> "-"]

\* the descriptor built by var.field_type(*var.args, **var.kwargs)
Field(key, var) == [key |-> key, kind |-> "field", value |-> "-", args |-> var.args]

\* setattr(cls, name, value) on the class' own __dict__
SetAttr(dict, entry) ==
    IF HasKey(dict, entry.key)
    THEN [dict EXCEPT ![IndexOf(dict, entry.key)] = entry]
    ELSE Append(dict, entry)

RECURSIVE Mro(_, _)
Mro(bs, d) == {d} \cup UNION {Mro(bs, bs[d][i]) : i \in 1..Len(bs[d])}

\* dir(cls): the names in the __dict__ of the class and of all its ancestors
dir(bs, dicts, d) == UNION {Keys(dicts[c]) : c \in Mro(bs, d)}

\* ---- field validation (reframe.core.fields.TypedField.__set__) -----------
TypeOf(value) == IF value \in {"1", "2"} THEN "int" ELSE "str"

FieldAccepts(args, value) == TypeOf(value) = args

\* ---- VarSpace.sanity -----------------------------------------------------
\* a sanity check that does not exempt the injected names
RECURSIVE SanityLoopNoExempt(_, _, _, _)
SanityLoopNoExempt(svars, injected, illegal_names, i) ==
    IF i > Len(svars) THEN NoErr
    ELSE IF svars[i].key \in illegal_names
         THEN Raise("NameClashError", svars[i].key)
         ELSE SanityLoopNoExempt(svars, injected, illegal_names, i + 1)

RECURSIVE SanityLoop(_, _, _, _)
SanityLoop(svars, injected, illegal_names, i) ==
    IF i > Len(svars) THEN NoErr
    ELSE IF svars[i].key \in illegal_names /\ svars[i].key \notin injected
         THEN Raise("NameClashError", svars[i].key)
         ELSE SanityLoop(svars, injected, illegal_names, i + 1)

DefaultIllegal == [given |-> FALSE, names |-> {}]

sanity(self, bs, dicts, d, illegal_names) ==
    SanityLoop(self.vars, self.injected,
               IF illegal_names.given THEN illegal_names.names
               ELSE dir(bs, dicts, d),
               1)

\* ---- VarSpace.inject -----------------------------------------------------
Unset == "<unset>"

NoAttrs == [n \in Names |-> Unset]

\* an inject that refuses a name that is already bound on the class
RECURSIVE InjectLoopNoRebind(_, _, _, _, _, _)
InjectLoopNoRebind(svars, hp, dict, attrs, injected, i) ==
    IF i > Len(svars)
    THEN [dict |-> dict, attrs |-> attrs, injected |-> injected, err |-> NoErr]
    ELSE LET name == svars[i].key
             var == hp[svars[i].ref]
             dict1 == SetAttr(dict, Field(name, var))
         IN  IF HasKey(dict, name)
             THEN [dict |-> dict, attrs |-> attrs, injected |-> injected,
                   err |-> Raise("NameClashError", name)]
             ELSE IF is_defined(var) /\ ~FieldAccepts(var.args, var.default_value)
             THEN [dict |-> dict1, attrs |-> attrs, injected |-> injected,
                   err |-> Raise("InvalidDefaultValueError", name)]
             ELSE InjectLoopNoRebind(svars, hp, dict1,
                                     IF is_defined(var)
                                     THEN [attrs EXCEPT ![name] = var.default_value]
                                     ELSE attrs,
                                     injected \cup {name}, i + 1)

\* an inject that also sets the value of an undefined variable
RECURSIVE InjectLoopSetsAll(_, _, _, _, _, _)
InjectLoopSetsAll(svars, hp, dict, attrs, injected, i) ==
    IF i > Len(svars)
    THEN [dict |-> dict, attrs |-> attrs, injected |-> injected, err |-> NoErr]
    ELSE LET name == svars[i].key
             var == hp[svars[i].ref]
             dict1 == SetAttr(dict, Field(name, var))
         IN  IF is_defined(var) /\ ~FieldAccepts(var.args, var.default_value)
             THEN [dict |-> dict1, attrs |-> attrs, injected |-> injected,
                   err |-> Raise("InvalidDefaultValueError", name)]
             ELSE InjectLoopSetsAll(svars, hp, dict1,
                                    [attrs EXCEPT ![name] = var.default_value],
                                    injected \cup {name}, i + 1)

RECURSIVE InjectLoop(_, _, _, _, _, _)
InjectLoop(svars, hp, dict, attrs, injected, i) ==
    IF i > Len(svars)
    THEN [dict |-> dict, attrs |-> attrs, injected |-> injected, err |-> NoErr]
    ELSE LET name == svars[i].key
             var == hp[svars[i].ref]
             dict1 == SetAttr(dict, Field(name, var))
         IN  IF is_defined(var) /\ ~FieldAccepts(var.args, var.default_value)
             THEN [dict |-> dict1, attrs |-> attrs, injected |-> injected,
                   err |-> Raise("InvalidDefaultValueError", name)]
             ELSE InjectLoop(svars, hp, dict1,
                             IF is_defined(var)
                             THEN [attrs EXCEPT ![name] = var.default_value]
                             ELSE attrs,
                             injected \cup {name}, i + 1)

inject(self, hp, dict) == InjectLoop(self.vars, hp, dict, NoAttrs, self.injected, 1)

\* ---- inputs --------------------------------------------------------------
SeqsUpTo(S, n) == UNION {[1..k -> S] : k \in 0..n}

DistinctKeys(m) == \A i, j \in 1..Len(m) : m[i].key = m[j].key => i = j

DeclValues == {_Undefined, "1", "'a'"}

LocalEntries(names) ==
    {[key |-> k, kind |-> "TestVar", args |-> a, default_value |-> v] :
        k \in names, a \in FieldArgs, v \in DeclValues}
    \cup {[key |-> k] @@ DefineVar(v) : k \in names, v \in Values}
    \cup {[key |-> k] @@ UndefineVar : k \in names}

\* a local variable space holds one entry per name
LocalVarSpaces(names) ==
    {m \in SeqsUpTo(LocalEntries(names), Cardinality(names)) : DistinctKeys(m)}

\* the plain attributes of a class body
Bodies(names) ==
    {m \in SeqsUpTo({Attr(k, v) : k \in names, v \in Values}, Cardinality(names)) :
        DistinctKeys(m)}

IllegalNames(names) ==
    {DefaultIllegal} \cup {[given |-> TRUE, names |-> S] : S \in SUBSET names}

\* the size of the class statements run so far
RECURSIVE ClassesSize(_, _, _)
ClassesSize(bss, locs, bds) ==
    IF bss = << >> THEN 0
    ELSE 1 + Len(Head(bss)) + Len(Head(locs)) + Len(Head(bds))
         + ClassesSize(Tail(bss), Tail(locs), Tail(bds))

\* Python only creates a class when its bases can be linearised: a base
\* may not be listed before one of its own descendants
BaseLists(bs, reg, n) ==
    {l \in SeqsUpTo(reg, IF n < Cardinality(reg) THEN n ELSE Cardinality(reg)) :
        \A i, j \in 1..Len(l) :
            /\ (l[i] = l[j] => i = j)
            /\ (i < j => l[i] \notin Mro(bs, l[j]))}

NoObj == [cls |-> 0, attrs |-> NoAttrs, err |-> NoErr]

\* ---- PrettyPrinter ------------------------------------------------------
\* strings are sequences of characters
Spaces(n) == [i \in 1..n |-> " "]

\* str.ljust, str.rjust and str.center of Python
ljust(s, width) == IF Len(s) >= width THEN s ELSE s \o Spaces(width - Len(s))

rjust(s, width) == IF Len(s) >= width THEN s ELSE Spaces(width - Len(s)) \o s

center(s, width) ==
    IF Len(s) >= width THEN s
    ELSE LET marg == width - Len(s)
             left == (marg \div 2) + (marg % 2) * (width % 2)
         IN  Spaces(left) \o s \o Spaces(marg - left)

Whitespace == {" ", "\t", "\n"}

\* str.strip of Python
RECURSIVE lstrip(_)
lstrip(s) == IF s # << >> /\ Head(s) \in Whitespace THEN lstrip(Tail(s)) ELSE s

RECURSIVE rstrip(_)
rstrip(s) ==
    IF s # << >> /\ s[Len(s)] \in Whitespace THEN rstrip(SubSeq(s, 1, Len(s) - 1))
    ELSE s

strip(s) == rstrip(lstrip(s))

\* str(n) for a natural number n
RECURSIVE str(_)
str(n) ==
    LET digit == <<"0", "1", "2", "3", "4", "5", "6", "7", "8", "9">>[(n % 10) + 1]
    IN  IF n < 10 THEN <<digit>> ELSE Append(str(n \div 10), digit)

ABORT == <<"A", "B", "O", "R", "T">>
ABORTED == <<"A", "B", "O", "R", "T", "E", "D">>
DRY == <<"D", "R", "Y">>
SKIP == <<"S", "K", "I", "P">>
FAIL == <<"F", "A", "I", "L">>
FAILED == <<"F", "A", "I", "L", "E", "D">>
ERROR == <<"E", "R", "R", "O", "R">>
OK == <<"O", "K">>
RUN == <<"R", "U", "N">>

\* reframe.utility.color.colorize: the text between two escape sequences
colorize(string, colour) == <<colour>> \o string \o <<"<RESET>">>

\* PrettyPrinter.__init__
NewPrinter == [colorize |-> TRUE, line_width |-> 78, status_width |-> 10]

\* the attributes that reset_progress sets
HasProgress(self) == "_progress_count" \in DOMAIN self

\* the statuses that count as progress
Counted == {ABORT, OK, SKIP, FAIL}

\* a counter that every counted status increases
CountUncapped(status_stripped, count, total) ==
    IF status_stripped \in Counted THEN count + 1 ELSE count

\* the progress counter after a status
Count(status_stripped, count, total) ==
    IF status_stripped \in Counted
    THEN IF count < total THEN count + 1 ELSE count
    ELSE count

\* PrettyPrinter.reset_progress
reset_progress(total_cases) ==
    /\ printer' = ("_progress_count" :> 0 @@ "_progress_total" :> total_cases
                     @@ printer)
    /\ UNCHANGED <<logged, vsvars, tvvars>>

\* PrettyPrinter.__setattr__ for the attribute colorize
SetColorize(value) ==
    /\ printer' = [printer EXCEPT !["colorize"] = value]
    /\ UNCHANGED <<logged, vsvars, tvvars>>

\* PrettyPrinter.status; a counted status of a printer without a progress
\* counter ends in an AttributeError before anything is logged
status(status_text, message, just) ==
    LET width == printer["status_width"] - 2
        padded == IF just = "center" THEN center(status_text, width)
                  ELSE IF just = "right" THEN rjust(status_text, width)
                  ELSE ljust(status_text, width)
        status_stripped == strip(padded)
        coloured ==
            IF printer["colorize"]
            THEN IF status_stripped \in {ABORT, ABORTED, DRY, SKIP}
                 THEN colorize(padded, "<YELLOW>")
                 ELSE IF status_stripped \in {FAIL, FAILED, ERROR}
                      THEN colorize(padded, "<RED>")
                      ELSE colorize(padded, "<GREEN>")
            ELSE padded
        head == <<"[", " ">> \o coloured \o <<" ", "]", " ">>
    IN  IF status_stripped \in Counted
        THEN /\ HasProgress(printer)
             /\ LET total == printer["_progress_total"]
                    count == Count(status_stripped, printer["_progress_count"], total)
                    padded_progress == rjust(str(count), Len(str(total)))
                IN  /\ printer' = [printer EXCEPT !["_progress_count"] = count]
                    /\ logged' = head \o <<"(">> \o padded_progress \o <<"/">>
                                  \o str(total) \o <<")", " ">> \o message
             /\ UNCHANGED <<vsvars, tvvars>>
        ELSE /\ logged' = head \o message
             /\ UNCHANGED <<printer, vsvars, tvvars>>

\* ---- the state machine ---------------------------------------------------
\* no class was created yet
NoClasses ==
    /\ bases = << >>
    /\ local = << >>
    /\ body = << >>
    /\ cdict = << >>
    /\ heap = << >>
    /\ vspace = << >>
    /\ injects = 0
    /\ pc = "idle"
    /\ err = NoErr
    /\ obj = NoObj

\* a TestVar object on which nothing was called
NoCalls ==
    /\ testvar = TestVar("int", _Undefined)
    /\ calls = << >>

\* a new PrettyPrinter that logged nothing
NoStatus ==
    /\ printer = NewPrinter
    /\ logged = << >>

Init == NoClasses /\ NoCalls /\ NoStatus

\* Namespace.inherit: self.join(base._rfm_var_space, cls) for every base of
\* the class, in order, until one fails
RECURSIVE inherit(_, _, _, _)
inherit(self, vs, bs, i) ==
    IF i > Len(bs) THEN [vars |-> self.vars, injected |-> self.injected, err |-> NoErr]
    ELSE LET r == join(self, vs[bs[i]])
         IN  IF r.err # NoErr THEN r
             ELSE inherit([vars |-> r.vars, injected |-> r.injected], vs, bs, i + 1)

\* VarSpace(cls, illegal_names), first part: inherit, then extend; the first
\* error ends it
BuildVarSpace(vs, hp, bs, dict, loc, d) ==
    LET j == inherit(EmptyVarSpace, vs, bs, 1) IN
    IF j.err # NoErr
    THEN [vars |-> j.vars, injected |-> j.injected, heap |-> hp, err |-> j.err]
    ELSE LET e == extend(j.vars, hp, loc, dict, d) IN
         [vars |-> e.vars, injected |-> j.injected, heap |-> e.heap, err |-> e.err]

\* the class statement: the body is executed (the TestVar objects are
\* created, the class gets its local variable space and its __dict__) and
\* the VarSpace of the class is built up to its sanity check
DefineClass(bs, loc, bd) ==
    /\ pc = "idle"
    /\ LET d == NumClasses + 1
           decl == {i \in 1..Len(loc) : loc[i].kind = "TestVar"}
           hp == heap @@ [r \in {<<d, loc[i].key>> : i \in decl} |->
                            LET e == Get(loc, r[2])
                            IN  TestVar(e.args, e.default_value)]
           r == BuildVarSpace(vspace, hp, bs, bd, loc, d)
       IN  /\ bases' = Append(bases, bs)
           /\ local' = Append(local, loc)
           /\ body' = Append(body, bd)
           /\ cdict' = Append(cdict, bd)
           /\ heap' = r.heap
           /\ vspace' = Append(vspace, [vars |-> r.vars, injected |-> r.injected])
           /\ err' = r.err
           /\ pc' = IF r.err # NoErr THEN "failed" ELSE "sanity"
    /\ UNCHANGED <<obj, injects, tvvars, ppvars>>

\* VarSpace(cls, illegal_names), last part: self.sanity(cls, illegal_names)
SanityCheck(illegal_names) ==
    /\ pc = "sanity"
    /\ LET r == sanity(vspace[NumClasses], bases, cdict, NumClasses, illegal_names)
       IN  /\ err' = r
           /\ pc' = IF r # NoErr THEN "failed" ELSE "idle"
    /\ UNCHANGED <<bases, local, body, cdict, heap, vspace, obj, injects,
                   tvvars, ppvars>>

\* the size of the program run so far
Size == ClassesSize(bases, local, body) + injects

\* the class statements with the given local variable spaces and plain
\* attributes, within the given size
ClassStatement(locals, attrs, maxSize) ==
    /\ pc = "idle"
    /\ Size < maxSize
    /\ LET room == maxSize - Size - 1 IN
       \E bs \in BaseLists(bases, Registered, room) :
         \E loc \in {l \in locals : Len(bs) + Len(l) <= room} :
            \E bd \in {b \in attrs : Len(bs) + Len(loc) + Len(b) <= room} :
                DefineClass(bs, loc, bd)

\* the exception leaves the class statement: the class is never created
Discard ==
    /\ pc = "failed"
    /\ LET d == NumClasses
           keep == 1..(d - 1)
       IN  /\ bases' = SubSeq(bases, 1, d - 1)
           /\ local' = SubSeq(local, 1, d - 1)
           /\ body' = SubSeq(body, 1, d - 1)
           /\ cdict' = SubSeq(cdict, 1, d - 1)
           /\ vspace' = SubSeq(vspace, 1, d - 1)
           /\ heap' = [r \in {q \in DOMAIN heap : q[1] \in keep} |-> heap[r]]
    /\ pc' = "idle"
    /\ err' = NoErr
    /\ UNCHANGED <<obj, injects, tvvars, ppvars>>

\* an instance of a registered class is constructed
NewInstance(d) ==
    /\ pc = "idle"
    /\ d \in Registered
    /\ Size < MaxSize
    /\ injects' = injects + 1
    /\ LET r == inject(vspace[d], heap, cdict[d])
       IN  /\ cdict' = [cdict EXCEPT ![d] = r.dict]
           /\ vspace' = [vspace EXCEPT ![d].injected = r.injected]
           /\ obj' = [cls |-> d, attrs |-> r.attrs, err |-> r.err]
    /\ UNCHANGED <<bases, local, body, heap, pc, err, tvvars, ppvars>>

TreeLocals == LocalVarSpaces(TreeNames)

TreeBodies == Bodies(TreeNames)

TreeIllegal == IllegalNames(TreeNames)

Next ==
    \/ ClassStatement(TreeLocals, TreeBodies, MaxSize)
    \/ \E illegal_names \in TreeIllegal : SanityCheck(illegal_names)
    \/ Discard
    \/ \E d \in 1..MaxSize : NewInstance(d)

Spec == Init /\ [][Next]_vars

\* the same program, driven by richer class bodies and no instances
AllLocals == LocalVarSpaces(Names)

AllBodies == Bodies(Names)

AllIllegal == IllegalNames(Names)

NextBody ==
    \/ ClassStatement(AllLocals, AllBodies, MaxBodySize)
    \/ \E illegal_names \in AllIllegal : SanityCheck(illegal_names)
    \/ Discard

SpecBody == Init /\ [][NextBody]_vars

\* the same program, driven by bodies that only declare variables
JoinLocals ==
    {l \in AllLocals :
        \A i \in 1..Len(l) : l[i].kind = "TestVar" /\ l[i].default_value = "1"}

NextJoin ==
    \/ ClassStatement(JoinLocals, {<< >>}, MaxJoinSize)
    \/ SanityCheck(DefaultIllegal)
    \/ Discard
    \/ \E d \in 1..MaxSize : NewInstance(d)

SpecJoin == Init /\ [][NextJoin]_vars

\* ---- one TestVar object ---------------------------------------------------
\* the values given to variable(..., value=v) and to define(v)
VarValues == (DeclValues \cup Values) \ {_Undefined}

\* TestVar(*args, value=...) or TestVar(*args)
InitVar ==
    /\ NoClasses /\ NoStatus
    /\ testvar \in {TestVar(a, v) : a \in FieldArgs, v \in VarValues \cup {_Undefined}}
    /\ calls = << >>

\* testvar.define(value)
CallDefine(value) ==
    /\ Len(calls) < MaxCalls
    /\ testvar' = define(testvar, value)
    /\ calls' = Append(calls, [op |-> "define", value |-> value])
    /\ UNCHANGED <<vsvars, ppvars>>

\* testvar.undefine()
CallUndefine ==
    /\ Len(calls) < MaxCalls
    /\ testvar' = undefine(testvar)
    /\ calls' = Append(calls, [op |-> "undefine", value |-> _Undefined])
    /\ UNCHANGED <<vsvars, ppvars>>

NextVar ==
    \/ \E value \in VarValues : CallDefine(value)
    \/ CallUndefine

SpecVar == InitVar /\ [][NextVar]_vars

\* ---- the progress of the pretty printer ----------------------------------
StatusTexts ==
    {OK, FAIL, SKIP, ABORT, RUN, FAILED, <<" ", "O", "K", " ">>, <<"o", "k">>,
     <<"P", "A", "S", "S", "E", "D", " ", "O", "K">>}

Messages == {<<"t", "1">>}

Justs == {"None", "center", "right"}

NextPrinter ==
    \/ \E total_cases \in 0..MaxTotal : reset_progress(total_cases)
    \/ \E value \in BOOLEAN : SetColorize(value)
    \/ \E status_text \in StatusTexts, message \in Messages, just \in Justs :
          status(status_text, message, just)

SpecPrinter == Init /\ [][NextPrinter]_vars

TypeOK ==
    /\ pc \in {"idle", "sanity", "failed"}
    /\ Size <= MaxSize \/ Size <= MaxBodySize

\* ---- vocabulary of the properties ----------------------------------------
\* the class of the latest class statement
Newest == NumClasses

\* the VarSpace of class d went through inherit and extend without error
Built(d) ==
    \/ d \in Registered
    \/ d = Newest /\ pc = "sanity"
    \/ d = Newest /\ pc = "failed" /\ err.type = "NameClashError"

Min(S) == CHOOSE m \in S : \A n \in S : m <= n

\* the variables of the bases of class d, in the order the joins visit them
RECURSIVE ConcatVars(_, _)
ConcatVars(d, i) ==
    IF i > Len(bases[d]) THEN << >>
    ELSE vspace[bases[d][i]].vars \o ConcatVars(d, i + 1)

Repeated(C) == {p \in 1..Len(C) : \E q \in 1..(p - 1) : C[q].key = C[p].key}

IsPrefix(a, b) == Len(a) <= Len(b) /\ SubSeq(b, 1, Len(a)) = a

\* C2: join inserts the variables of the other namespace in order and raises
\* DuplicateDeclarationError at the first name that is already present; a
\* class with two bases that carry the same name is never registered,
\* whichever base is joined first.
C2_JoinRejectsDuplicates ==
    \A d \in 1..NumClasses :
        LET C == ConcatVars(d, 1)
            dup == Repeated(C)
        IN  IF dup # {}
            THEN /\ d = Newest
                 /\ pc = "failed"
                 /\ err = Raise("DuplicateDeclarationError", C[Min(dup)].key)
                 /\ vspace[d].vars = SubSeq(C, 1, Min(dup) - 1)
            ELSE /\ ~(d = Newest /\ pc = "failed"
                        /\ err.type = "DuplicateDeclarationError")
                 /\ IsPrefix(C, vspace[d].vars)

\* a class statement with two bases, the younger one listed first, was
\* rejected because both carry the same name
C2_Witness ==
    /\ pc = "failed"
    /\ err.type = "DuplicateDeclarationError"
    /\ Len(bases[Newest]) = 2
    /\ bases[Newest][1] > bases[Newest][2]
    /\ vspace[Newest].vars = vspace[bases[Newest][1]].vars

\* ---- linear chains -------------------------------------------------------
RECURSIVE LinearChain(_)
LinearChain(d) ==
    \/ bases[d] = << >>
    \/ Len(bases[d]) = 1 /\ LinearChain(bases[d][1])

\* the classes of the chain that ends in d
RECURSIVE Chain(_)
Chain(d) == IF bases[d] = << >> THEN {d} ELSE {d} \cup Chain(bases[d][1])

ActsOn(c, k) == HasKey(local[c], k) \/ HasKey(body[c], k)

\* the default written by the body nearest to d, going up the chain
RECURSIVE NearestDefault(_, _)
NearestDefault(d, k) ==
    IF HasKey(local[d], k) THEN Get(local[d], k).default_value
    ELSE IF HasKey(body[d], k) THEN Get(body[d], k).value
    ELSE NearestDefault(bases[d][1], k)

DeclaredIn(c) == {local[c][i].key : i \in {j \in 1..Len(local[c]) : local[c][j].kind = "TestVar"}}

\* C1: when the VarSpace of the last class of a linear chain has been built,
\* it holds exactly the variables declared along the chain, each with the
\* default written by the nearest body of the chain that declared, defined
\* or undefined it.
C1_NearestBodyWins ==
    (pc = "sanity" /\ LinearChain(Newest)) =>
        /\ Keys(vspace[Newest].vars) = UNION {DeclaredIn(c) : c \in Chain(Newest)}
        /\ \A i \in 1..Len(vspace[Newest].vars) :
              LET e == vspace[Newest].vars[i]
              IN  heap[e.ref].default_value = NearestDefault(Newest, e.key)

\* C8: no step changes the default of a variable in the VarSpace of a class
\* that is already registered (an ancestor or a sibling of the class being
\* extended).
C8_AncestorsUntouched ==
    [][\A c \in Registered : \A i \in 1..Len(vspace[c].vars) :
          LET r == vspace[c].vars[i].ref
          IN  heap'[r].default_value = heap[r].default_value]_vars

\* the classes of the hierarchy of d that have a member named k
Holders(d, k) == {c \in Mro(bases, d) : HasKey(cdict[c], k)}

\* every member named k visible on class d is a descriptor bound by an
\* inject of the VarSpace of its class, which recorded the name
InjectedMember(d, k) ==
    /\ Holders(d, k) # {}
    /\ \A c \in Holders(d, k) :
          Get(cdict[c], k).kind = "field" /\ k \in vspace[c].injected

InheritedKeys(d) == UNION {Keys(vspace[bases[d][i]].vars) : i \in 1..Len(bases[d])}

\* C10: the sanity check of a new class never raises NameClashError for an
\* inherited name whose members on the class and its ancestors were all
\* bound by a completed inject.
C10_InjectedNamesExempt ==
    (pc = "failed" /\ err.type = "NameClashError") =>
        ~(err.key \in InheritedKeys(Newest) /\ InjectedMember(Newest, err.key))

\* every member named k visible on class d is a plain attribute: no inject
\* ever bound the name on the class or on an ancestor
UnrelatedMember(d, k) ==
    /\ Holders(d, k) # {}
    /\ \A c \in Holders(d, k) : Get(cdict[c], k).kind = "attr"

\* C9: the sanity check of a VarSpace raises NameClashError exactly when a
\* name of the VarSpace is reserved and not in its set of injected names,
\* the reserved names being the given ones or else the members visible on
\* the class; with the default, a variable whose name is an unrelated member
\* of the class is rejected.
C9_SanityClashes ==
    [][\A illegal_names \in AllIllegal :
          SanityCheck(illegal_names) =>
              LET d == Newest
                  reserved == IF illegal_names.given THEN illegal_names.names
                              ELSE UNION {Keys(cdict[c]) : c \in Mro(bases, d)}
                  clashes == {k \in Keys(vspace[d].vars) :
                                 k \in reserved /\ k \notin vspace[d].injected}
              IN  /\ (pc' = "failed" /\ err'.type = "NameClashError") <=> clashes # {}
                  /\ clashes = {} => pc' = "idle" /\ err' = NoErr
                  /\ clashes # {} => err'.key \in clashes
                  /\ ~illegal_names.given =>
                        \A k \in Keys(vspace[d].vars) :
                            UnrelatedMember(d, k) => err'.type = "NameClashError"]_vars

\* the sanity check rejected a VarSpace for a variable whose name is an
\* unrelated member of the class
C9_Witness ==
    /\ pc = "failed"
    /\ err.type = "NameClashError"
    /\ err.key \in Keys(vspace[Newest].vars)
    /\ UnrelatedMember(Newest, err.key)

\* ---- the class statement that has just run -------------------------------
\* extend was called for the newest class and nothing has run since, except
\* possibly its sanity check
Extended ==
    \/ pc = "sanity"
    \/ pc = "failed" /\ err.type # "DuplicateDeclarationError"

\* the error extend raised, if any
ExtendFailed ==
    /\ pc = "failed"
    /\ err.type \in {"RedeclarationError", "UndeclaredVariableError",
                     "MultipleActionsError"}

IsDirective(e) == e.kind \in {"DefineVar", "UndefineVar"}

\* entry i of the local variable space of class d can be applied: a
\* declaration of a name that is not inherited, or a define or undefine of a
\* name that is inherited or was declared by an earlier entry
LocalApplies(d, i) ==
    LET e == local[d][i]
        earlier == {local[d][j].key :
                       j \in {n \in 1..(i - 1) : local[d][n].kind = "TestVar"}}
    IN  IF e.kind = "TestVar" THEN e.key \notin InheritedKeys(d)
        ELSE e.key \in InheritedKeys(d) \cup earlier

LocalOK(d) == \A i \in 1..Len(local[d]) : LocalApplies(d, i)

FirstBad(d) == Min({i \in 1..Len(local[d]) : ~LocalApplies(d, i)})

\* the error of the first entry of the local variable space that cannot be
\* applied
FirstBadError(d) ==
    LET e == local[d][FirstBad(d)]
    IN  IF e.kind = "TestVar" THEN Raise("RedeclarationError", e.key)
        ELSE Raise("UndeclaredVariableError", e.key)

\* the names with a define or undefine entry and also an assignment in the body
TwiceTargeted(d) ==
    {k \in Keys(local[d]) \cap Keys(body[d]) : IsDirective(Get(local[d], k))}

\* the names declared and also assigned in the body
DeclaredAndAssigned(d) ==
    {k \in Keys(local[d]) \cap Keys(body[d]) : Get(local[d], k).kind = "TestVar"}

\* C3 as stated: a name with a define or undefine entry and an assignment
\* in the same body makes extend raise MultipleActionsError.
C3_Original ==
    (Extended /\ TwiceTargeted(Newest) # {}) =>
        (pc = "failed" /\ err.type = "MultipleActionsError")

\* C3 as amended: such a body is always rejected by extend, with
\* MultipleActionsError when every entry of the local variable space can be
\* applied, and otherwise with the error of the first entry that cannot.
C3_TwoActionsRejected ==
    /\ \A d \in Registered : TwiceTargeted(d) = {}
    /\ (Extended /\ TwiceTargeted(Newest) # {}) =>
          /\ pc = "failed"
          /\ IF LocalOK(Newest)
             THEN /\ err.type = "MultipleActionsError"
                  /\ err.key \in Keys(local[Newest]) \cap Keys(body[Newest])
             ELSE err = FirstBadError(Newest)

\* extend raised MultipleActionsError for a name with an undefine or define
\* entry on an inherited variable and an assignment in the body
C3_Witness ==
    /\ pc = "failed"
    /\ err.type = "MultipleActionsError"
    /\ err.key \in TwiceTargeted(Newest)
    /\ err.key \in InheritedKeys(Newest)

\* C4 as stated: a body that declares v and assigns v is accepted, and v
\* gets the assigned value as its default.
C4_Original ==
    (Extended /\ LocalOK(Newest) /\ TwiceTargeted(Newest) = {}) =>
        \A k \in DeclaredAndAssigned(Newest) :
            /\ ~ExtendFailed
            /\ heap[<<Newest, k>>].default_value = Get(body[Newest], k).value

\* C4 as amended: a body that declares v and assigns v is rejected by
\* extend, with MultipleActionsError when every entry of the local variable
\* space can be applied (v then still has its declared default), and
\* otherwise with the error of the first entry that cannot.
C4_DeclareThenAssignRejected ==
    /\ \A d \in Registered : DeclaredAndAssigned(d) = {}
    /\ (Extended /\ DeclaredAndAssigned(Newest) # {}) =>
          /\ pc = "failed"
          /\ IF LocalOK(Newest)
             THEN /\ err.type = "MultipleActionsError"
                  /\ err.key \in Keys(local[Newest]) \cap Keys(body[Newest])
                  /\ \A k \in DeclaredAndAssigned(Newest) :
                        heap[<<Newest, k>>] =
                            TestVar(Get(local[Newest], k).args,
                                    Get(local[Newest], k).default_value)
             ELSE err = FirstBadError(Newest)

\* extend raised MultipleActionsError for a variable declared with a default
\* and assigned in the same body
C4_Witness ==
    /\ pc = "failed"
    /\ err.type = "MultipleActionsError"
    /\ err.key \in DeclaredAndAssigned(Newest)
    /\ Get(local[Newest], err.key).default_value = "1"

\* the names assigned in the body of d that are no variable of d
Unrelated(d) == Keys(body[d]) \ (InheritedKeys(d) \cup Keys(local[d]))

\* C5 as stated: an assignment in the body to a name that is not in the
\* namespace makes extend raise UndeclaredVariableError.
C5_Original ==
    (Extended /\ LocalOK(Newest) /\ Keys(local[Newest]) \cap Keys(body[Newest]) = {}
        /\ Unrelated(Newest) # {}) =>
        (pc = "failed" /\ err.type = "UndeclaredVariableError")

\* C5 as amended: an assignment in the body to a name that is neither in
\* the namespace nor in the local variable space is ignored: it raises no
\* error and adds or changes no variable; UndeclaredVariableError is only
\* raised for define and undefine entries; an assignment to a name that is
\* in the namespace and not in the local variable space sets the default of
\* that variable.
C5_BareAssignment ==
    /\ (pc = "failed" /\ err.type = "UndeclaredVariableError") =>
          /\ HasKey(local[Newest], err.key)
          /\ IsDirective(Get(local[Newest], err.key))
    /\ (Extended /\ LocalOK(Newest)
          /\ Keys(local[Newest]) \cap Keys(body[Newest]) = {}) =>
          /\ ~ExtendFailed
          /\ Keys(vspace[Newest].vars) =
                InheritedKeys(Newest) \cup DeclaredIn(Newest)
          /\ \A k \in Keys(body[Newest]) \cap InheritedKeys(Newest) :
                heap[Get(vspace[Newest].vars, k).ref].default_value =
                    Get(body[Newest], k).value

\* extend accepted a body that assigns an inherited variable and a name that
\* is no variable
C5_Witness ==
    /\ pc = "sanity"
    /\ Unrelated(Newest) # {}
    /\ \E k \in Keys(body[Newest]) \cap InheritedKeys(Newest) :
          /\ Get(body[Newest], k).value = "2"
          /\ heap[Get(vspace[Newest].vars, k).ref].default_value = "2"

\* the entries of the local variable space of d that extend applied
Applied(d) ==
    {i \in 1..Len(local[d]) : \A j \in 1..i : LocalApplies(d, j)}

\* the TestVar object that the name k of the VarSpace of d refers to
RefOf(d, k) == Get(vspace[d].vars, k).ref

\* the TestVar object that the bases of d hold under the name k
BaseRef(d, k) ==
    LET b == CHOOSE c \in {bases[d][i] : i \in 1..Len(bases[d])} :
                 HasKey(vspace[c].vars, k)
    IN  RefOf(b, k)

\* C6: in extend, a define or undefine entry on a name that is not in the
\* namespace when the entry is applied raises UndeclaredVariableError; on a
\* name that is present it sets the default of that variable to the value
\* (or to undefined), keeps its field type and arguments, and changes no
\* other variable.
C6_DirectiveChangesOnlyDefault ==
    [][(NumClasses' = NumClasses + 1 /\ Extended') =>
          \A d \in {Newest'} :
          LET directives == {i \in DOMAIN local'[d] : IsDirective(local'[d][i])}
              applied == {i \in directives : (i \in Applied(d))'}
              targets == UNION {{RefOf(d, k)' : k \in {local'[d][i].key}} :
                                  i \in applied}
              assigned == UNION {{RefOf(d, k)' : k \in {body'[d][j].key}} :
                                   j \in {n \in DOMAIN body'[d] :
                                            HasKey(vspace'[d].vars, body'[d][n].key)}}
          IN  /\ \A i \in directives :
                    (~LocalOK(d)' /\ FirstBad(d)' = i) =>
                        /\ pc' = "failed"
                        /\ err' = Raise("UndeclaredVariableError", local'[d][i].key)
              /\ \A i \in applied : \A k \in {local'[d][i].key} :
                    \A r \in {RefOf(d, k)'} :
                        /\ r \in DOMAIN heap
                        /\ heap'[r] = [heap[r] EXCEPT
                                         !.default_value = local'[d][i].default_value]
              /\ \A r \in DOMAIN heap :
                    r \notin targets \cup assigned => heap'[r] = heap[r]
              /\ \A r \in DOMAIN heap :
                    /\ heap'[r].field_type = heap[r].field_type
                    /\ heap'[r].args = heap[r].args]_vars

\* extend applied a define or undefine entry to one of two variables and
\* changed its default
C6_Witness ==
    /\ pc = "sanity"
    /\ Len(vspace[Newest].vars) >= 2
    /\ \E i \in 1..Len(local[Newest]) :
          /\ IsDirective(local[Newest][i])
          /\ heap[RefOf(Newest, local[Newest][i].key)].default_value =
                local[Newest][i].default_value
          /\ local[Newest][i].default_value #
                local[RefOf(Newest, local[Newest][i].key)[1]][1].default_value

\* C7: in extend, the declaration of a name that is inherited raises
\* RedeclarationError; a declaration of any other name inserts the new
\* variable under its name; an inherited name always refers to the
\* inherited variable.
C7_NoRedeclaration ==
    /\ \A d \in Registered : DeclaredIn(d) \cap InheritedKeys(d) = {}
    /\ Extended =>
          LET d == Newest IN
          /\ DeclaredIn(d) \cap InheritedKeys(d) # {} => pc = "failed"
          /\ (~LocalOK(d) /\ local[d][FirstBad(d)].kind = "TestVar") =>
                /\ pc = "failed"
                /\ err = Raise("RedeclarationError", local[d][FirstBad(d)].key)
          /\ \A k \in InheritedKeys(d) :
                HasKey(vspace[d].vars, k) /\ RefOf(d, k) = BaseRef(d, k)
          /\ \A i \in Applied(d) :
                local[d][i].kind = "TestVar" =>
                    /\ HasKey(vspace[d].vars, local[d][i].key)
                    /\ RefOf(d, local[d][i].key) = <<d, local[d][i].key>>
          /\ Cardinality(Keys(vspace[d].vars)) = Len(vspace[d].vars)

\* extend raised RedeclarationError for an inherited name, after it had
\* inserted another declared variable
C7_Witness ==
    /\ pc = "failed"
    /\ err.type = "RedeclarationError"
    /\ err.key \in InheritedKeys(Newest)
    /\ RefOf(Newest, err.key) = BaseRef(Newest, err.key)
    /\ Len(vspace[Newest].vars) = 2

\* C19: once reset_progress(n) was called, every status call leaves the
\* progress counter within 0..n and never decreases it; the counter grows,
\* by exactly one, exactly when the stripped status text is one of ABORT,
\* OK, SKIP, FAIL and the counter is below n; any other status leaves it
\* unchanged, and no status changes n.
C19_ProgressCounter ==
    [][HasProgress(printer) =>
          \A status_text \in StatusTexts, message \in Messages, just \in Justs :
             status(status_text, message, just) =>
                LET n == printer["_progress_total"]
                    before == printer["_progress_count"]
                    after == printer'["_progress_count"]
                IN  /\ 0 <= before /\ before <= n
                    /\ HasProgress(printer')
                    /\ printer'["_progress_total"] = n
                    /\ 0 <= after /\ after <= n
                    /\ after >= before
                    /\ after \in {before, before + 1}
                    /\ after = before + 1 <=>
                          (strip(status_text) \in Counted /\ before < n)]_vars

\* a counted status was logged and the counter has reached the total of
\* several test cases
C19_Witness ==
    /\ HasProgress(printer)
    /\ printer["_progress_total"] >= 2
    /\ printer["_progress_count"] = printer["_progress_total"]
    /\ \E i \in 1..Len(logged) :
          /\ logged[i] = "("
          /\ SubSeq(logged, i + 1, i + 1) = str(printer["_progress_count"])

\* the last call made on the TestVar object
LastCall == calls[Len(calls)]

\* C17: a TestVar declared without a default is not defined; after define(v)
\* it is defined and its default is v; after undefine() it is not defined,
\* and one more undefine() leaves it as it is.
C17_DefineUndefine ==
    /\ \A a \in FieldArgs :
          (calls = << >> /\ testvar = TestVar(a, _Undefined)) => ~is_defined(testvar)
    /\ (calls # << >> /\ LastCall.op = "define") =>
          /\ is_defined(testvar)
          /\ testvar.default_value = LastCall.value
    /\ (calls # << >> /\ LastCall.op = "undefine") =>
          /\ ~is_defined(testvar)
          /\ undefine(testvar) = testvar
          /\ undefine(undefine(testvar)) = undefine(testvar)

\* a TestVar was defined and then undefined twice
C17_Witness ==
    /\ Len(calls) = 3
    /\ calls[1].op = "define"
    /\ calls[2].op = "undefine"
    /\ calls[3].op = "undefine"
    /\ ~is_defined(testvar)

\* the names that an inject has bound as slots on class d
Bound(d) == {k \in Keys(cdict[d]) : Get(cdict[d], k).kind = "field"}

\* the variables of the VarSpace of class d whose default is defined
Defined(d) == {k \in Keys(vspace[d].vars) : is_defined(heap[RefOf(d, k)])}

\* every defined default of the VarSpace of class d passes the validation
\* of its field
DefaultsValid(d) ==
    \A k \in Defined(d) :
        FieldAccepts(heap[RefOf(d, k)].args, heap[RefOf(d, k)].default_value)

\* the inject of the VarSpace of class d into a new instance
IsInject(d) == injects' = injects + 1 /\ obj'.cls = d

\* C11: an inject never fails with NameClashError, however often the
\* VarSpace was injected into instances of the class before: names already
\* bound on the class are bound again, and the inject completes whenever
\* the defaults pass the validation of their fields.  A sanity check of the
\* VarSpace against the class after an inject raises for none of the names
\* in the set of injected variables, and raises nothing at all after an
\* inject that completed.
C11_RepeatedInject ==
    [][\A d \in Registered :
          IsInject(d) =>
             /\ obj'.err.type # "NameClashError"
             /\ DefaultsValid(d) => obj'.err = NoErr
             /\ Keys(cdict'[d]) = Keys(cdict[d]) \cup Bound(d)'
             /\ \A illegal_names \in TreeIllegal :
                   LET r == sanity(vspace'[d], bases', cdict', d, illegal_names)
                   IN  /\ r.key \notin vspace'[d].injected
                       /\ obj'.err = NoErr => r = NoErr]_vars

\* the VarSpace of the only class was injected into a second instance
C11_Witness ==
    /\ pc = "idle"
    /\ NumClasses = 1
    /\ injects >= 2
    /\ obj.cls = 1
    /\ obj.err = NoErr
    /\ Bound(1) = {"x"}
    /\ sanity(vspace[1], bases, cdict, 1, DefaultIllegal) = NoErr

\* C15: no step removes a name from the set of injected variables of a
\* VarSpace; the joins of a new class give it every name of the sets of
\* its bases, and an inject that completes adds every name of the VarSpace.
C15_InjectedGrows ==
    [][/\ \A d \in Registered :
             d <= NumClasses' => vspace[d].injected \subseteq vspace'[d].injected
       /\ (NumClasses' = NumClasses + 1
             /\ err'.type # "DuplicateDeclarationError") =>
             \A i \in DOMAIN bases'[NumClasses'] :
                 vspace[bases'[NumClasses'][i]].injected
                     \subseteq vspace'[NumClasses'].injected
       /\ \A d \in Registered :
             (IsInject(d) /\ obj'.err = NoErr) =>
                 Keys(vspace[d].vars) \subseteq vspace'[d].injected]_vars

\* a class that was never instantiated got the injected names of its base
C15_Witness ==
    /\ pc = "idle"
    /\ \E d \in Registered :
          /\ bases[d] # << >>
          /\ Bound(d) = {}
          /\ vspace[d].injected # {}
          /\ vspace[d].injected = vspace[bases[d][1]].injected

\* C16: an inject leaves the VarSpace as it is: the names, and the field
\* type, arguments and default of every TestVar.  It binds a slot for every
\* name it reaches on the class, gives the instance the default of every
\* defined variable it reaches and no value for an undefined variable, adds
\* the names it completes to the set of injected variables, and touches no
\* other class.
C16_InjectFrame ==
    [][\A d \in Registered :
          IsInject(d) =>
             /\ heap' = heap
             /\ \A c \in Registered : vspace'[c].vars = vspace[c].vars
             /\ \A c \in Registered \ {d} :
                   vspace'[c] = vspace[c] /\ cdict'[c] = cdict[c]
             /\ <<bases', local', body'>> = <<bases, local, body>>
             /\ \A k \in Names :
                   /\ k \notin Defined(d) => obj'.attrs[k] = Unset
                   /\ (k \in Defined(d) /\ obj'.err = NoErr) =>
                         obj'.attrs[k] = heap[RefOf(d, k)].default_value
             /\ vspace'[d].injected \ vspace[d].injected \subseteq Keys(vspace[d].vars)
             /\ \A k \in Keys(cdict'[d]) :
                   \/ k \in Keys(vspace[d].vars)
                      /\ Get(cdict'[d], k) = Field(k, heap[RefOf(d, k)])
                   \/ k \in Keys(cdict[d]) /\ Get(cdict'[d], k) = Get(cdict[d], k)
             /\ obj'.err = NoErr => Bound(d)' = Keys(vspace[d].vars)]_vars

\* an inject completed for a VarSpace whose variable is undefined: the name
\* is bound on the class and the instance has no value for it
C16_Witness ==
    /\ pc = "idle"
    /\ obj.cls \in Registered
    /\ obj.err = NoErr
    /\ Keys(vspace[obj.cls].vars) = {"x"}
    /\ ~is_defined(heap[RefOf(obj.cls, "x")])
    /\ obj.attrs["x"] = Unset
    /\ "x" \in Bound(obj.cls)

\* C18: every name that an inject bound as a slot on a class is in the set
\* of injected variables of the VarSpace of that class, so that the sanity
\* check of the VarSpace against the class never raises for a name the
\* inject bound.
C18_BoundNamesRecorded ==
    \A d \in Registered :
        /\ Bound(d) \subseteq vspace[d].injected
        /\ sanity(vspace[d], bases, cdict, d, DefaultIllegal).key \notin Bound(d)

\* the variables of the first n bases of class d, in the order of the joins
RECURSIVE JoinedVars(_, _)
JoinedVars(d, n) ==
    IF n = 0 THEN << >>
    ELSE JoinedVars(d, n - 1) \o vspace[bases[d][n]].vars

\* C12: when a join or the extend of a class statement fails, the TestVar
\* objects of the classes registered before keep their defaults, the
\* VarSpaces of those classes are as they were, and the VarSpace the failed
\* call was made on holds what the joins before the failed call gave it:
\* nothing the failed call inserted.
C12_NoPartialNamespace ==
    [][(NumClasses' = NumClasses + 1 /\ pc' = "failed") =>
          \A d \in {NumClasses'} :
             /\ err'.type \in {"DuplicateDeclarationError", "RedeclarationError",
                               "UndeclaredVariableError", "MultipleActionsError"}
             /\ \A r \in DOMAIN heap : heap'[r] = heap[r]
             /\ \A c \in Registered : vspace'[c] = vspace[c]
             /\ \E n \in 0..Len(bases'[d]) : vspace'[d].vars = JoinedVars(d, n)']_vars

\* the classes among d and its ancestors whose body declares k
Declarers(d, k) == {c \in Mro(bases, d) : k \in DeclaredIn(c)}

\* the define, undefine and assignment actions of the body of c on k
ActionsOn(c, k) ==
    Cardinality({i \in 1..Len(local[c]) :
                    IsDirective(local[c][i]) /\ local[c][i].key = k})
    + Cardinality({i \in 1..Len(body[c]) : body[c][i].key = k})

\* C14: every variable of a VarSpace that was built was declared in the body
\* of exactly one class among the class and its ancestors, and no body of
\* those classes applied more than one define, undefine or assignment to
\* it; a class statement for which this fails is rejected.
C14_DeclaredOnce ==
    /\ \A d \in 1..NumClasses :
          Built(d) =>
             \A k \in Keys(vspace[d].vars) :
                /\ Cardinality(Declarers(d, k)) = 1
                /\ \A c \in Mro(bases, d) : ActionsOn(c, k) <= 1
    /\ pc # "idle" =>
          \A k \in Names :
             (\/ Cardinality(Declarers(Newest, k)) > 1
              \/ /\ Declarers(Newest, k) # {}
                 /\ \E c \in Mro(bases, Newest) : ActionsOn(c, k) > 1)
                => pc = "failed"

\* a class was built that declares one variable and redefines the one it
\* inherited
C14_Witness ==
    /\ pc = "idle"
    /\ \E d \in Registered :
          /\ bases[d] # << >>
          /\ Len(vspace[d].vars) = 2
          /\ \E i, j \in 1..Len(local[d]) :
                /\ local[d][i].kind = "TestVar"
                /\ IsDirective(local[d][j])
                /\ local[d][j].key \in InheritedKeys(d)

\* the join of the VarSpace of class a and then of class b into an empty one
JoinBoth(a, b) == join(join(EmptyVarSpace, vspace[a]), vspace[b])

\* the content of a VarSpace as a mapping: its pairs of name and TestVar
Content(m) == {<<m[i].key, m[i].ref>> : i \in 1..Len(m)}

\* C13: for two VarSpaces with no name in common, the joins into an empty
\* VarSpace succeed in either order and give the same variables under the
\* same names and the same set of injected variables, the union of the two.
C13_JoinCommutes ==
    \A a, b \in Registered :
        Keys(vspace[a].vars) \cap Keys(vspace[b].vars) = {} =>
            LET ab == JoinBoth(a, b)
                ba == JoinBoth(b, a)
            IN  /\ ab.err = NoErr /\ ba.err = NoErr
                /\ Content(ab.vars) = Content(ba.vars)
                /\ Content(ab.vars) = Content(vspace[a].vars) \cup Content(vspace[b].vars)
                /\ Len(ab.vars) = Len(ba.vars)
                /\ Len(ab.vars) = Cardinality(Content(ab.vars))
                /\ ab.injected = ba.injected
                /\ ab.injected = vspace[a].injected \cup vspace[b].injected

\* a class was built from two bases that declare different variables, the
\* second of which was instantiated before
C13_Witness ==
    /\ pc = "idle"
    /\ \E d \in Registered :
          /\ Len(bases[d]) = 2
          /\ vspace[bases[d][1]].vars # << >>
          /\ vspace[bases[d][1]].injected = {}
          /\ vspace[bases[d][2]].injected # {}
          /\ Content(vspace[d].vars) = Content(JoinBoth(bases[d][2], bases[d][1]).vars)
          /\ vspace[d].injected = vspace[bases[d][2]].injected
====
